---- MODULE Spec2Model ----
(***************************************************************************)
(* Model of SurveyProcessor.py: the header-matching and response-encoding   *)
(* engine (find_best_column, compile_responses, filter_responses,           *)
(* response_to_number_helper, get_user_numbers) and the batch loop of       *)
(* main_function that drives it.                                            *)
(*                                                                         *)
(* A Python str is a sequence of one-character strings, so that lower(),    *)
(* strip(), replace(), re.sub() and the `in` substring test are computed    *)
(* character by character.                                                  *)
(***************************************************************************)
EXTENDS Integers, Sequences, FiniteSets, TLC

VARIABLES
    pc,                 \* position of main_function / of the call under study
    attendance_values,  \* global: column B of the attendance sheet
    master_values,      \* global: all rows of the master sheet
    pre_values,         \* global: all rows of the pre-survey sheet
    post_values,        \* global: all rows of the post-survey sheet
    pre_headers,        \* global: row 1 of the pre-survey sheet
    post_headers,       \* global: row 1 of the post-survey sheet
    questions,          \* global: question labels from the master sheet
    names,              \* main_function: identifiers still to be processed
    written,            \* master_sheet.update calls made by write_user_numbers
    call,               \* arguments of the function call under study
    ret                 \* <<>> before the call returns, <<value>> after

vars == <<pc, attendance_values, master_values, pre_values, post_values,
          pre_headers, post_headers, questions, names, written, call, ret>>

globals == <<attendance_values, master_values, pre_values, post_values,
             pre_headers, post_headers, questions>>

----------------------------------------------------------------------------
(* Python str primitives                                                    *)

UpperCase == {"A","B","C","D","E","F","G","H","I","J","K","L","M",
              "N","O","P","Q","R","S","T","U","V","W","X","Y","Z"}

LowerOf == [c \in UpperCase |->
    CASE c = "A" -> "a" [] c = "B" -> "b" [] c = "C" -> "c" [] c = "D" -> "d"
      [] c = "E" -> "e" [] c = "F" -> "f" [] c = "G" -> "g" [] c = "H" -> "h"
      [] c = "I" -> "i" [] c = "J" -> "j" [] c = "K" -> "k" [] c = "L" -> "l"
      [] c = "M" -> "m" [] c = "N" -> "n" [] c = "O" -> "o" [] c = "P" -> "p"
      [] c = "Q" -> "q" [] c = "R" -> "r" [] c = "S" -> "s" [] c = "T" -> "t"
      [] c = "U" -> "u" [] c = "V" -> "v" [] c = "W" -> "w" [] c = "X" -> "x"
      [] c = "Y" -> "y" [] c = "Z" -> "z"]

\* the characters str.strip() removes and the regex class \s matches
Whitespace == {" ", "\t", "\n", "\r"}

\* str.lower()
Lower(s) == [i \in 1..Len(s) |-> IF s[i] \in UpperCase THEN LowerOf[s[i]] ELSE s[i]]

\* str.strip()
RECURSIVE LStrip(_)
LStrip(s) == IF s # <<>> /\ Head(s) \in Whitespace THEN LStrip(Tail(s)) ELSE s

RECURSIVE RStrip(_)
RStrip(s) ==
    IF s # <<>> /\ s[Len(s)] \in Whitespace THEN RStrip(SubSeq(s, 1, Len(s) - 1)) ELSE s

Strip(s) == RStrip(LStrip(s))

\* str.replace("?", "")
RemoveQuestionMarks(s) == SelectSeq(s, LAMBDA c : c # "?")

\* position of the first whitespace character of s, or 0
FirstWhitespace(s) ==
    IF \E i \in 1..Len(s) : s[i] \in Whitespace
    THEN CHOOSE i \in 1..Len(s) : s[i] \in Whitespace /\ \A j \in 1..(i - 1) : s[j] \notin Whitespace
    ELSE 0

\* re.sub(r"\s+", " ", s): every maximal run of whitespace becomes one space
RECURSIVE CollapseWhitespace(_)
CollapseWhitespace(s) ==
    LET k == FirstWhitespace(s)
    IN  IF k = 0 THEN s
        ELSE SubSeq(s, 1, k - 1) \o <<" ">> \o CollapseWhitespace(LStrip(SubSeq(s, k, Len(s))))

\* needle in hay (substring containment; the empty string is in every string)
Contains(hay, needle) ==
    \E k \in 0..(Len(hay) - Len(needle)) : SubSeq(hay, k + 1, k + Len(needle)) = needle

\* list.index(x) for x in list, 0-based
IndexOf(list, x) == CHOOSE i \in 0..(Len(list) - 1) :
    /\ list[i + 1] = x
    /\ \A j \in 0..(i - 1) : list[j + 1] # x

NOT_FOUND == -1

\* a local variable: the value of e, computed once, is given to body
Bind(e, body(_)) == CHOOSE y \in {body(v) : v \in {e}} : TRUE

----------------------------------------------------------------------------
(* difflib.SequenceMatcher(None, a, b).ratio(), as called on line 65.       *)
(* No junk function is given and the strings are far shorter than the 200   *)
(* characters at which the autojunk heuristic starts, so every character    *)
(* takes part in the matching. A ratio is kept as the exact fraction        *)
(* <<numerator, denominator>>.                                              *)

RECURSIVE CommonRun(_, _, _, _, _, _)
\* length of the block a[i:i+k] == b[j:j+k] starting at (i, j), inside [.., ahi) x [.., bhi)
CommonRun(a, b, i, j, ahi, bhi) ==
    IF i < ahi /\ j < bhi /\ a[i + 1] = b[j + 1]
    THEN 1 + CommonRun(a, b, i + 1, j + 1, ahi, bhi)
    ELSE 0

\* every <<size, i, j>>: the block of `size` characters that starts at i in a
\* and at j in b
Blocks(a, b, alo, ahi, blo, bhi) ==
    {<<CommonRun(a, b, i, j, ahi, bhi), i, j>> : i \in alo..(ahi - 1), j \in blo..(bhi - 1)}

\* block t is found before block u: it is longer, or as long and starting
\* earlier in a, or as long, starting at the same place in a and earlier in b
Preferred(t, u) ==
    \/ t[1] > u[1]
    \/ t[1] = u[1] /\ t[2] < u[2]
    \/ t[1] = u[1] /\ t[2] = u[2] /\ t[3] <= u[3]

\* find_longest_match: <<i, j, k>>, the longest matching block in a[alo:ahi],
\* b[blo:bhi]; of those the one starting earliest in a, and of those the one
\* starting earliest in b; <<alo, blo, 0>> when nothing matches
find_longest_match(a, b, alo, ahi, blo, bhi) ==
    Bind(Blocks(a, b, alo, ahi, blo, bhi), LAMBDA T :
        Bind(CHOOSE t \in T : \A u \in T : Preferred(t, u), LAMBDA best :
            IF best[1] = 0 THEN <<alo, blo, 0>> ELSE <<best[2], best[3], best[1]>>))

RECURSIVE MatchingSize(_, _, _, _, _, _)
\* get_matching_blocks: total size of the blocks found by splitting around the
\* longest match and recursing to its left and to its right
MatchingSize(a, b, alo, ahi, blo, bhi) ==
    IF alo >= ahi \/ blo >= bhi THEN 0
    ELSE Bind(find_longest_match(a, b, alo, ahi, blo, bhi), LAMBDA m :
            IF m[3] = 0 THEN 0
            ELSE m[3] + MatchingSize(a, b, alo, m[1], blo, m[2])
                      + MatchingSize(a, b, m[1] + m[3], ahi, m[2] + m[3], bhi))

\* ratio(): 2.0 * matches / (len(a) + len(b)), and 1.0 for two empty strings
Ratio(a, b) ==
    Bind(Len(a) + Len(b), LAMBDA length :
        IF length = 0 THEN <<1, 1>>
        ELSE <<2 * MatchingSize(a, b, 0, Len(a), 0, Len(b)), length>>)

\* comparisons of fractions with positive denominators
RatLess(x, y) == x[1] * y[2] < y[1] * x[2]
RatLeq(x, y) == x[1] * y[2] <= y[1] * x[2]

----------------------------------------------------------------------------
(* find_best_column (lines 51-69)                                           *)

\* the normalisation of lines 53, 57 and 64
Normalize(text) == CollapseWhitespace(Strip(RemoveQuestionMarks(Lower(text))))

\* the first pass with line 57 left out: the headers are compared as written
RECURSIVE SubstringPass_RawHeader(_, _, _)
SubstringPass_RawHeader(norm_q, headers, i) ==
    IF i >= Len(headers) THEN 0
    ELSE IF Contains(headers[i + 1], norm_q) THEN i + 1
         ELSE SubstringPass_RawHeader(norm_q, headers, i + 1)

\* first pass (lines 56-59): 1-based position of the first header whose
\* normalised text contains norm_q, or 0 when the loop ends without returning
RECURSIVE SubstringPass(_, _, _)
SubstringPass(norm_q, headers, i) ==
    IF i >= Len(headers) THEN 0
    ELSE IF Contains(Normalize(headers[i + 1]), norm_q) THEN i + 1
         ELSE SubstringPass(norm_q, headers, i + 1)

\* second pass (lines 62-67): the loop from header i on, carrying
\* best = <<best_score, best_idx>>
RECURSIVE FuzzyPass(_, _, _, _)
FuzzyPass(norm_q, headers, i, best) ==
    IF i >= Len(headers) THEN best
    ELSE Bind(Ratio(norm_q, Normalize(headers[i + 1])), LAMBDA score :
            FuzzyPass(norm_q, headers, i + 1,
                      IF RatLess(best[1], score) THEN <<score, i>> ELSE best))

find_best_column(keyword, headers, fuzzy_cutoff) ==
    Bind(Normalize(keyword), LAMBDA norm_q :
        Bind(SubstringPass(norm_q, headers, 0), LAMBDA hit :
            IF hit # 0 THEN hit
            ELSE Bind(FuzzyPass(norm_q, headers, 0, <<(<<0, 1>>), -1>>), LAMBDA best :
                    IF RatLeq(fuzzy_cutoff, best[1]) THEN best[2] + 1 ELSE NOT_FOUND)))

\* the default value of fuzzy_cutoff (line 51) and the value at the two call
\* sites (lines 142, 151)
DefaultCutoff == <<6, 10>>
QuestionCutoff == <<35, 100>>

----------------------------------------------------------------------------
(* The closed vocabulary of response_to_number_helper (lines 193-285), one  *)
(* <<text, code>> pair per `case`, in source order.                         *)

VocabularyTable == <<
    <<<<"p","g","y","1">>, 0>>,
    <<<<"p","g","y","2">>, 1>>,
    <<<<"p","g","y","3">>, 2>>,
    <<<<"2","0","-","2","5">>, 0>>,
    <<<<"2","6","-","3","2">>, 1>>,
    <<<<"3","3","-","4","0">>, 2>>,
    <<<<"4","1","+">>, 3>>,
    <<<<"s","i","n","g","l","e","/","n","o","n"," ","p","a","r","t","n","e","r","e","d">>, 0>>,
    <<<<"m","a","r","r","i","e","d","/","p","a","r","t","n","e","r","e","d">>, 1>>,
    <<<<"m","a","n">>, 0>>,
    <<<<"w","o","m","a","n">>, 1>>,
    <<<<"t","r","a","n","s","g","e","n","d","e","r">>, 2>>,
    <<<<"n","o","n","-","b","i","n","a","r","y",","," ","g","e","n","d","e","r"," ","n","o","n","-","c","o","n","f","o","r","m","i","n","g",","," ","o","r"," ","g","e","n","d","e","r","q","u","e","e","r">>, 3>>,
    <<<<"p","r","e","f","e","r","r","e","d"," ","r","e","s","p","o","n","s","e"," ","n","o","t"," ","l","i","s","t","e","d">>, 4>>,
    <<<<"a","l","l","e","r","g","y"," ","&"," ","i","m","m","u","n","o","l","o","g","y">>, 0>>,
    <<<<"c","a","r","d","i","o","l","o","g","y">>, 1>>,
    <<<<"e","n","d","o","c","r","i","n","o","l","o","g","y">>, 2>>,
    <<<<"g","e","r","i","a","t","r","i","c","s">>, 3>>,
    <<<<"g","i">>, 4>>,
    <<<<"h","e","m","e","/","o","n","c">>, 5>>,
    <<<<"h","o","s","p","i","t","a","l"," ","m","e","d","i","c","i","n","e">>, 6>>,
    <<<<"i","n","f","e","c","t","i","o","u","s"," ","d","i","s","e","a","s","e">>, 7>>,
    <<<<"n","e","p","h","r","o","l","o","g","y">>, 8>>,
    <<<<"p","a","l","l","i","a","t","i","v","e"," ","c","a","r","e">>, 9>>,
    <<<<"p","u","l","m","/","c","r","i","t">>, 10>>,
    <<<<"p","r","i","m","a","r","y"," ","c","a","r","e">>, 11>>,
    <<<<"r","h","e","u","m","a","t","o","l","o","g","y">>, 12>>,
    <<<<"i"," ","d","o","n","'","t"," ","p","l","a","n"," ","t","o"," ","p","r","a","c","t","i","c","e">>, 13>>,
    <<<<"u","n","d","e","c","i","d","e","d">>, 14>>,
    <<<<"c","c","u">>, 0>>,
    <<<<"e","d">>, 1>>,
    <<<<"e","l","e","c","t","i","v","e">>, 2>>,
    <<<<"e","l","m","h","u","r","s","t">>, 3>>,
    <<<<"m","i","c","u">>, 4>>,
    <<<<"n","i","g","h","t","s">>, 5>>,
    <<<<"s","i","n","a","i"," ","f","l","o","o","r","s">>, 6>>,
    <<<<"s","e","n","i","o","r"," ","r","o","l","e">>, 7>>,
    <<<<"v","a"," ","f","l","o","o","r","s">>, 8>>,
    <<<<"v","a"," ","i","c","u">>, 9>>,
    <<<<"n","o">>, 0>>,
    <<<<"y","e","s">>, 1>>,
    <<<<"s","t","r","o","n","g","l","y"," ","d","i","s","a","g","r","e","e">>, 0>>,
    <<<<"d","i","s","a","g","r","e","e">>, 1>>,
    <<<<"n","e","u","t","r","a","l">>, 2>>,
    <<<<"a","g","r","e","e">>, 3>>,
    <<<<"s","t","r","o","n","g","l","y"," ","a","g","r","e","e">>, 4>>,
    <<<<"n","o","t"," ","a","t"," ","a","l","l">>, 0>>,
    <<<<"s","o","m","e","w","h","a","t"," ","t","r","u","e">>, 1>>,
    <<<<"m","o","d","e","r","a","t","e","l","y"," ","t","r","u","e">>, 2>>,
    <<<<"v","e","r","y"," ","t","r","u","e">>, 3>>,
    <<<<"c","o","m","p","l","e","t","e","l","y"," ","t","r","u","e">>, 4>>,
    <<<<"v","e","r","y"," ","l","i","t","t","l","e">>, 1>>,
    <<<<"m","o","d","e","r","a","t","e","l","y">>, 2>>,
    <<<<"a"," ","l","o","t">>, 3>>,
    <<<<"e","x","t","r","e","m","e","l","y">>, 4>>,
    <<<<"i"," ","f","e","e","l"," ","c","o","m","p","l","e","t","e","l","y"," ","b","u","r","n","e","d"," ","o","u","t">>, 0>>,
    <<<<"m","y"," ","s","y","m","p","t","o","m","s"," ","o","f"," ","b","u","r","n","o","u","t"," ","w","o","n","'","t"," ","g","o"," ","a","w","a","y","."," ","i"," ","t","h","i","n","k"," ","a","b","o","u","t"," ","w","o","r","k"," ","f","r","u","s","t","r","a","t","i","o","n","s"," ","a"," ","l","o","t",".">>, 1>>,
    <<<<"i"," ","a","m"," ","d","e","f","i","n","i","t","e","l","y"," ","b","u","r","n","i","n","g"," ","o","u","t"," ","a","n","d"," ","h","a","v","e"," ","m","o","r","e"," ","t","h","a","n"," ","o","n","e"," ","s","y","m","p","t","o","m"," ","o","f"," ","b","u","r","n","o","u","t",","," ","e",".","g","."," ","e","m","o","t","i","o","n","a","l"," ","e","x","h","a","u","s","t","i","o","n"," ","a","n","d"," ","d","e","p","e","r","s","o","n","a","l","i","z","a","t","i","o","n",".">>, 2>>,
    <<<<"i"," ","a","m"," ","v","e","r","y"," ","s","t","r","e","s","s","e","d"," ","a","n","d"," ","m","a","y"," ","b","e"," ","s","u","f","f","e","r","i","n","g"," ","s","o","m","e"," ","b","u","r","n","o","u","t"," ","s","y","m","p","t","o","m","s",","," ","s","u","c","h"," ","a","s"," ","e","m","o","t","i","o","n","a","l"," ","e","x","h","a","u","s","t","i","o","n"," ","o","r"," ","d","e","p","e","r","s","o","n","a","l","i","z","a","t","i","o","n",".">>, 3>>,
    <<<<"i"," ","a","m"," ","u","n","d","e","r"," ","s","t","r","e","s","s",","," ","a","n","d"," ","d","o","n","'","t"," ","a","l","w","a","y","s"," ","h","a","v","e"," ","a","s"," ","m","u","c","h"," ","e","n","e","r","g","y"," ","a","s"," ","i"," ","d","i","d",","," ","b","u","t"," ","i"," ","d","o","n","'","t"," ","f","e","e","l"," ","b","u","r","n","e","d"," ","o","u","t",".">>, 4>>,
    <<<<"i"," ","e","n","j","o","y"," ","m","y"," ","w","o","r","k","."," ","i"," ","h","a","v","e"," ","n","o"," ","s","y","m","p","t","o","m","s"," ","o","f"," ","b","u","r","n","o","u","t",".">>, 5>>,
    <<<<"n","o","t"," ","o","f"," ","i","n","t","e","r","e","s","t"," ","t","o"," ","m","e">>, 0>>,
    <<<<"t","o","o"," ","b","u","s","y"," ","w","i","t","h"," ","c","l","i","n","i","c","a","l"," ","d","u","t","i","e","s">>, 1>>,
    <<<<"t","o","o"," ","b","u","s","y"," ","w","i","t","h"," ","a","d","m","i","n">>, 2>>,
    <<<<"t","o","o"," ","b","u","s","y"," ","w","i","t","h"," ","o","t","h","e","r"," ","s","t","u","f","f">>, 3>>,
    <<<<"i"," ","l","i","k","e"," ","t","o"," ","k","e","e","p"," ","m","y"," ","l","u","n","c","h"," ","h","o","u","r"," ","f","r","e","e">>, 4>>,
    <<<<"n","/","a","-","-","i"," ","h","a","v","e"," ","a","t","t","e","n","d","e","d"," ","a","l","l"," ","o","f"," ","t","h","e","m">>, 5>>,
    <<<<"n","a","r","r","a","t","i","v","e"," ","m","e","d","i","c","i","n","e"," ","f","a","c","u","l","t","y"," ","f","r","o","m"," ","c","o","l","u","m","b","i","a"," ","u","n","i","v","e","r","s","i","t","y"," ","(","c","u","r","r","e","n","t"," ","f","a","c","i","l","i","t","a","t","o","r","s",")">>, 0>>,
    <<<<"m","o","u","n","t"," ","s","i","n","a","i"," ","f","a","c","u","l","t","y"," ","w","i","t","h"," ","e","x","p","e","r","i","e","n","c","e","/","i","n","t","e","r","e","s","t"," ","i","n"," ","n","a","r","r","a","t","i","v","e"," ","m","e","d","i","c","i","n","e">>, 1>>,
    <<<<"m","o","u","n","t"," ","s","i","n","a","i"," ","r","e","s","i","d","e","n","t","s"," ","w","i","t","h"," ","e","x","p","e","r","i","e","n","c","e","/","i","n","t","e","r","e","s","t"," ","i","n"," ","n","a","r","r","a","t","i","v","e"," ","m","e","d","i","c","i","n","e">>, 2>>,
    <<<<"o","n","l","y"," ","p","g","y","1","'","s">>, 0>>,
    <<<<"p","g","y","1","'","s",","," ","p","g","y","2","'","s",","," ","a","n","d"," ","p","g","y","3","'","s">>, 1>>,
    <<<<"o","n","l","y"," ","p","g","y","1","s">>, 0>>,
    <<<<"p","g","y","1","s",","," ","p","g","y","2","s",","," ","a","n","d"," ","p","g","y","3","s">>, 1>>,
    <<<<"c","l","o","s","e"," ","r","e","a","d","i","n","g"," ","a","n","d"," ","d","i","s","c","u","s","s","i","o","n">>, 0>>,
    <<<<"w","r","i","t","i","n","g"," ","e","x","e","r","c","i","s","e"," ","a","n","d"," ","d","i","s","c","u","s","s","i","o","n">>, 1>>,
    <<<<"n","/","a","-","-","h","a","v","e"," ","n","o","t"," ","a","t","t","e","n","d","e","d">>, 2>>,
    <<<<"n","/","a"," ","-"," ","d","i","d"," ","n","o","t"," ","a","t","t","e","n","d">>, 5>>
>>

\* a Python value returned by the encoder: an int or a str
PyInt(n) == [kind |-> "int", num |-> n, text |-> <<>>]
PyStr(s) == [kind |-> "str", num |-> 0, text |-> s]

\* the outcome of a call that may raise: the value returned, or the exception
Returned(v) == [raised |-> FALSE, exc |-> "", value |-> v]
Raised(e) == [raised |-> TRUE, exc |-> e, value |-> <<>>]

ERROR == <<"E","R","R","O","R">>

\* the `match r` statement: the code of the first case equal to r, if any
InVocabulary(r) == \E n \in 1..Len(VocabularyTable) : VocabularyTable[n][1] = r

VocabularyCode(r) ==
    Bind(VocabularyTable, LAMBDA table :
        table[CHOOSE n \in 1..Len(table) :
                /\ table[n][1] = r
                /\ \A m \in 1..(n - 1) : table[m][1] # r][2])

\* line 191: r = response.lower().strip()
NormalizeResponse_NoStrip(response) == Lower(response)

NormalizeResponse(response) == Strip(Lower(response))

\* lines 290-295: the fallback for an answer r that is in no vocabulary
\* family, given the lower-cased answers of the participant
FreeTextCode(r, lowered) ==
    IF \E n \in 1..Len(lowered) : lowered[n] = r
    THEN Bind(IndexOf(lowered, r), LAMBDA idx :
            IF idx >= Len(questions) THEN Raised("IndexError")
            ELSE IF Contains(Lower(questions[idx + 1]), <<"w","r","i","t","e"," ","o","n","e"," ","w","o","r","d">>)
                 THEN Returned(PyStr(r))
                 ELSE Returned(PyStr(ERROR)))
    ELSE Returned(PyStr(ERROR))

\* response_to_number_helper (lines 187-295); every cell is a str, so the
\* None test of line 188 never succeeds
response_to_number_helper(response, responses) ==
    Bind(NormalizeResponse(response), LAMBDA r :
        IF InVocabulary(r) THEN Returned(PyInt(VocabularyCode(r)))
        ELSE IF r = <<>> \/ r = <<" ">> THEN Returned(PyStr(<<>>))
        ELSE FreeTextCode(r, [n \in 1..Len(responses) |-> Lower(responses[n])]))

\* response_to_number (lines 298-299): the list comprehension ends at the
\* first element whose encoding raises
response_to_number(responses) ==
    Bind([n \in 1..Len(responses) |-> response_to_number_helper(responses[n], responses)],
         LAMBDA codes :
            IF \E n \in 1..Len(responses) : codes[n].raised
            THEN Raised("IndexError")
            ELSE Returned([n \in 1..Len(responses) |-> codes[n].value]))

----------------------------------------------------------------------------
(* Row and column lookups (lines 93-126)                                    *)

\* the loop of find_pre_column / find_post_column: 1-based position of the
\* first header that contains keyword as written, or -1
FindColumn(headers, keyword) ==
    IF \E i \in 1..Len(headers) : Contains(headers[i], keyword)
    THEN CHOOSE i \in 1..Len(headers) :
            /\ Contains(headers[i], keyword)
            /\ \A j \in 1..(i - 1) : ~Contains(headers[j], keyword)
    ELSE NOT_FOUND

find_pre_column(keyword) == FindColumn(pre_headers, keyword)

find_post_column(keyword) == FindColumn(post_headers, keyword)

\* the body shared by find_pre_row_by_id and find_post_row_by_id: a row too
\* short to hold the identifier column counts as an empty identifier
FindRowById(values, col, identifier) ==
    IF col = NOT_FOUND THEN NOT_FOUND
    ELSE LET column_values == [i \in 1..Len(values) |->
                 IF Len(values[i]) >= col THEN values[i][col] ELSE <<>>]
             hit(i) == Lower(column_values[i]) = Lower(identifier)
         IN  IF \E i \in 1..Len(values) : hit(i)
             THEN CHOOSE i \in 1..Len(values) : hit(i) /\ \A j \in 1..(i - 1) : ~hit(j)
             ELSE NOT_FOUND

find_pre_row_by_id(identifier) ==
    FindRowById(pre_values, find_pre_column(<<"P","e","r","s","o","n","a","l"," ","I","d","e","n","t","i","f","i","e","r",":">>), identifier)

find_post_row_by_id(identifier) ==
    FindRowById(post_values, find_post_column(<<"P","e","r","s","o","n","a","l"," ","I","d","e","n","t","i","f","i","e","r",":">>), identifier)

----------------------------------------------------------------------------
(* Reading one answer (lines 139-154)                                       *)

\* values[row - 1][col - 1] of lines 145 and 154: list indexing raises
\* IndexError past the end of the row
CellAt(values, row, col) ==
    IF col > Len(values[row]) THEN Raised("IndexError")
    ELSE Returned(values[row][col])

\* lines 140-142 and 149-151: the exact lookup, and the fuzzy one when it
\* finds nothing
post_column(question) ==
    Bind(find_post_column(question), LAMBDA col :
        IF col = NOT_FOUND THEN find_best_column(question, post_headers, QuestionCutoff) ELSE col)

pre_column(question) ==
    Bind(find_pre_column(question), LAMBDA col :
        IF col = NOT_FOUND THEN find_best_column(question, pre_headers, QuestionCutoff) ELSE col)

compile_post_response(row, question) ==
    Bind(post_column(question), LAMBDA col :
        IF col = NOT_FOUND \/ row = NOT_FOUND THEN Returned(ERROR)
        ELSE CellAt(post_values, row, col))

compile_pre_response(row, question) ==
    Bind(pre_column(question), LAMBDA col :
        IF col = NOT_FOUND \/ row = NOT_FOUND THEN Returned(ERROR)
        ELSE CellAt(pre_values, row, col))

----------------------------------------------------------------------------
(* filter_responses (lines 157-165)                                         *)

\* line 161, written with `or` in place of `and`
LooksLikeTimestamp_Either(r) == Contains(r, <<":">>) \/ Contains(r, <<"/">>)

\* line 161
LooksLikeTimestamp(r) == Contains(r, <<":">>) /\ Contains(r, <<"/">>)

filter_responses(responses) ==
    [n \in 1..Len(responses) |-> IF LooksLikeTimestamp(responses[n]) THEN <<" ">> ELSE responses[n]]

----------------------------------------------------------------------------
(* compile_responses (lines 168-184)                                        *)

\* the index at which the answers switch to the post-survey sheet (line 176)
Boundary == 36

\* post_triggered when the question at 0-based position n is read: the flag is
\* set by the first question whose label has questions.index(label) >= 36,
\* and stays set
post_triggered(n) ==
    \E m \in 0..n : IndexOf(questions, questions[m + 1]) >= Boundary

\* the loop of lines 175-182 for the rows found, then line 184
CompileRows(pre_row, post_row) ==
    Bind([n \in 1..Len(questions) |->
            IF post_triggered(n - 1)
            THEN compile_post_response(post_row, questions[n])
            ELSE compile_pre_response(pre_row, questions[n])], LAMBDA answers :
        IF \E n \in 1..Len(questions) : answers[n].raised
        THEN Raised("IndexError")
        ELSE Returned(filter_responses([n \in 1..Len(questions) |-> answers[n].value])))

compile_responses(identifier) ==
    CompileRows(find_pre_row_by_id(identifier), find_post_row_by_id(identifier))

----------------------------------------------------------------------------
(* get_user_numbers (lines 302-310)                                         *)

\* line 304, comparing v with ident as written
count_attendance_CaseSensitive(identifier) ==
    Cardinality({i \in 1..Len(attendance_values) : attendance_values[i] = Lower(identifier)})

count_attendance(identifier) ==
    Cardinality({i \in 1..Len(attendance_values) :
                    Lower(attendance_values[i]) = Lower(identifier)})

\* lines 309-310 for the answers compiled
NumbersFor(identifier, responses) ==
    IF responses.raised THEN responses
    ELSE Bind(response_to_number(responses.value), LAMBDA nums :
            IF nums.raised THEN nums
            ELSE Returned(<<PyInt(count_attendance(identifier))>> \o nums.value))

get_user_numbers(identifier) ==
    Bind(compile_responses(identifier), LAMBDA responses : NumbersFor(identifier, responses))

----------------------------------------------------------------------------
(* The worksheet reads main_function makes (gspread): a sheet is the list   *)
(* of its rows, a row the list of its cells.                                *)

RECURSIVE TrimTrailingEmpty(_)
TrimTrailingEmpty(cells) ==
    IF cells # <<>> /\ cells[Len(cells)] = <<>>
    THEN TrimTrailingEmpty(SubSeq(cells, 1, Len(cells) - 1))
    ELSE cells

\* worksheet.row_values(r)
RowValues(sheet, r) == IF r > Len(sheet) THEN <<>> ELSE TrimTrailingEmpty(sheet[r])

\* worksheet.col_values(c)
ColValues(sheet, c) ==
    TrimTrailingEmpty([i \in 1..Len(sheet) |-> IF Len(sheet[i]) >= c THEN sheet[i][c] ELSE <<>>])

\* worksheet.cell(r, c).value
CellValue(sheet, r, c) ==
    IF r <= Len(sheet) /\ c <= Len(sheet[r]) THEN sheet[r][c] ELSE <<>>

----------------------------------------------------------------------------
(* Names and questions from the master sheet                                *)

\* get_names (lines 88-90) on the master sheet given
get_names(sheet) == SelectSeq(ColValues(sheet, 1), LAMBDA n : n # <<>> /\ n # <<"I","d","e","n","t","i","f","i","e","r">>)

\* header.split("\n")[0]
FirstLine(header) ==
    IF \E i \in 1..Len(header) : header[i] = "\n"
    THEN SubSeq(header, 1, (CHOOSE i \in 1..Len(header) :
                               header[i] = "\n" /\ \A j \in 1..(i - 1) : header[j] # "\n") - 1)
    ELSE header

\* get_questions_from_master (lines 129-136)
get_questions_from_master(sheet) ==
    LET header_row == RowValues(sheet, 4)
        firsts == [i \in 1..Len(header_row) |-> FirstLine(header_row[i])]
    IN  SelectSeq(firsts, LAMBDA q : q # <<"I","d","e","n","t","i","f","i","e","r">> /\ ~Contains(q, <<"#"," ","o","f"," ","s","e","s","s","i","o","n","s"," ","a","t","t","e","n","d","e","d">>))

\* identifier_getter (lines 313-319): the lower-cased attendance values, each
\* once, in order of first appearance
identifier_getter(attendance) ==
    LET lv(i) == Lower(attendance[i])
        kept == {i \in 1..Len(attendance) :
                    /\ \A j \in 1..(i - 1) : lv(j) # lv(i)
                    /\ ~Contains(lv(i), <<"f","i","r","s","t"," ","t","w","o"," ","l","e","t","t","e","r","s">>)}
    IN  [k \in 1..Cardinality(kept) |->
            lv(CHOOSE i \in kept : Cardinality({j \in kept : j < i}) = k - 1)]

\* write_identities (lines 322-328) followed by the refresh of line 377: the
\* master sheet with A5, A6, ... set to the identities
write_identities(sheet, identities) ==
    [r \in 1..(IF Len(sheet) > Len(identities) + 4 THEN Len(sheet) ELSE Len(identities) + 4) |->
        IF r >= 5 /\ r <= Len(identities) + 4
        THEN IF r <= Len(sheet) /\ Len(sheet[r]) >= 1
             THEN [sheet[r] EXCEPT ![1] = identities[r - 4]]
             ELSE <<identities[r - 4]>>
        ELSE IF r <= Len(sheet) THEN sheet[r] ELSE <<(<<>>)>>]

\* filter_names (lines 342-350): the names whose column B is still blank
filter_names(list, values) ==
    LET col_b == [r \in 1..Len(values) |-> IF Len(values[r]) > 1 THEN values[r][2] ELSE <<>>]
        kept == {i \in 0..(Len(list) - 1) : i + 4 < Len(col_b) /\ col_b[i + 5] = <<>>}
    IN  [k \in 1..Cardinality(kept) |->
            list[(CHOOSE i \in kept : Cardinality({j \in kept : j < i}) = k - 1) + 1]]

\* write_user_numbers (lines 331-339): the update sent to the master sheet,
\* from column B of the identifier's row on
write_user_numbers(identifier, numbers) ==
    LET first_col_values == [r \in 1..Len(master_values) |-> master_values[r][1]]
    IN  [row |-> IndexOf(first_col_values, identifier) + 1, col |-> 2, values |-> numbers]

----------------------------------------------------------------------------
(* Module state before main_function has run (lines 78-85): every table is  *)
(* an empty list.                                                           *)

ModuleLoaded ==
    /\ attendance_values = <<>>
    /\ master_values = <<>>
    /\ pre_values = <<>>
    /\ post_values = <<>>
    /\ pre_headers = <<>>
    /\ post_headers = <<>>
    /\ questions = <<>>
    /\ names = <<>>
    /\ written = <<>>

\* all sequences over S of length at most n
SeqsUpTo(S, n) == UNION {[1..k -> S] : k \in 0..n}

----------------------------------------------------------------------------
(* main_function (lines 353-382): Spec                                      *)

\* the most questions a master sheet holds after the pre-survey ones
MaxPostQuestions == 2

Digits == <<"0", "1", "2", "3", "4", "5", "6", "7", "8", "9">>

\* the label of the n-th question nobody's sheet has a column for
FillerLabel(n) == <<"Q", Digits[(n \div 10) + 1], Digits[(n % 10) + 1]>>

CalmLabel == <<"I"," ","f","e","e","l"," ","c","a","l","m">>
WordLabel == <<"W","r","i","t","e"," ","o","n","e"," ","w","o","r","d">>
NotesLabel == <<"C","o","m","m","e","n","t","s">>

\* the first two questions of the master sheet
QuestionPrefixes == {<<CalmLabel, WordLabel>>, <<WordLabel, CalmLabel>>}

\* question lists: Boundary questions of the pre-survey, then those of the
\* post-survey
QuestionLists ==
    {prefix \o [n \in 1..(Boundary - 2) |-> FillerLabel(n)] \o post :
        prefix \in QuestionPrefixes,
        post \in SeqsUpTo({CalmLabel, NotesLabel}, MaxPostQuestions)}

\* row 4 of the master sheet for a question list: each header carries a
\* second line
MasterHeaderRow(qs) ==
    <<<<"I","d","e","n","t","i","f","i","e","r">>, <<"#"," ","o","f"," ","s","e","s","s","i","o","n","s"," ","a","t","t","e","n","d","e","d">>>> \o [n \in 1..Len(qs) |-> qs[n] \o <<"\n">> \o <<"*">>]

\* rows 5.. of the master sheet: identifier in column A, column B blank until
\* the row has been processed
MasterDataPool == {
    <<>>,
    <<(<<<<"A","b">>, <<>>>>), (<<<<"c","d">>>>)>>,
    <<(<<<<"a","b">>, <<"3">>>>), (<<<<"c","d">>, <<>>>>)>> }

MasterSheets(qs) ==
    {<<(<<<<>>>>), (<<<<>>>>), (<<<<>>>>), MasterHeaderRow(qs)>> \o data : data \in MasterDataPool}

PreHeaderRow == <<<<"P","e","r","s","o","n","a","l"," ","I","d","e","n","t","i","f","i","e","r",":">>, <<"I"," ","f","e","e","l"," ","c","a","l","m">>, <<"W","r","i","t","e"," ","o","n","e"," ","w","o","r","d","?">>>>

PreSheets == {
    <<PreHeaderRow>>,
    <<PreHeaderRow, (<<<<"a","b">>, <<"A","g","r","e","e">>, <<"C","a","l","m">>>>)>>,
    <<PreHeaderRow, (<<<<"A","B">>, <<"A","g","r","e","e">>>>), (<<<<"c","d">>, <<"a","g","r","e","e">>, <<"C","a","l","m">>>>)>>,
    <<PreHeaderRow, (<<<<"c","d">>, <<"3","/","4"," ","1",":","0","0">>, <<"T","i","r","e","d">>>>), (<<<<"A","b">>, <<"N","e","u","t","r","a","l">>, <<" ","C","a","l","m"," ">>>>)>> }

PostHeaderRow == <<<<"P","e","r","s","o","n","a","l"," ","I","d","e","n","t","i","f","i","e","r",":">>, <<"I"," ","f","e","e","l"," ","c","a","l","m","?">>, <<"C","o","m","m","e","n","t","s">>>>

PostSheets == {
    <<PostHeaderRow>>,
    <<PostHeaderRow, (<<<<"a","b">>, <<"S","t","r","o","n","g","l","y"," ","A","g","r","e","e">>, <<"c","a","l","m">>>>)>>,
    <<PostHeaderRow, (<<<<"c","d">>, <<"D","i","s","a","g","r","e","e">>>>), (<<<<"A","B">>, <<"A","g","r","e","e">>, <<"E","r","r","o","r">>>>)>> }

Init ==
    /\ ModuleLoaded
    /\ pc = "idle"
    /\ call = <<>>
    /\ ret = <<>>

\* column B of the attendance sheet
AttendancePool == {<<>>, <<<<"A","B">>, <<"a","b">>, <<"c","d">>>>}

\* lines 354-379: the sheets are fetched, identifiers seeded when A5 is
\* empty, and the names still to be processed listed
Load ==
    /\ pc = "idle"
    /\ \E qs \in QuestionLists, pre \in PreSheets, post \in PostSheets,
          att \in AttendancePool :
        \E master \in MasterSheets(qs) :
            LET seeded == IF Len(CellValue(master, 5, 1)) < 2
                          THEN write_identities(master, identifier_getter(att))
                          ELSE master
            IN  /\ attendance_values' = att
                /\ master_values' = seeded
                /\ pre_values' = pre
                /\ post_values' = post
                /\ pre_headers' = RowValues(pre, 1)
                /\ post_headers' = RowValues(post, 1)
                /\ questions' = get_questions_from_master(master)
                /\ names' = filter_names(get_names(seeded), seeded)
    /\ written' = <<>>
    /\ pc' = "loop"
    /\ UNCHANGED <<call, ret>>

\* lines 380-382, one iteration: the numbers are written back, unless
\* get_user_numbers raises; the exception then leaves main_function and the
\* names that remain are not processed
ProcessName ==
    /\ pc = "loop"
    /\ names # <<>>
    /\ \E nums \in {get_user_numbers(Head(names))} :
           IF nums.raised
           THEN /\ pc' = "failed"
                /\ UNCHANGED <<names, written>>
           ELSE /\ written' = Append(written, write_user_numbers(Head(names), nums.value))
                /\ names' = Tail(names)
                /\ pc' = pc
    /\ UNCHANGED <<globals, call, ret>>

\* the loop of line 380 ends and main_function returns
Finish ==
    /\ pc = "loop"
    /\ names = <<>>
    /\ pc' = "done"
    /\ UNCHANGED <<globals, names, written, call, ret>>

Next == Load \/ ProcessName \/ Finish

Spec == Init /\ [][Next]_vars

\* the identifier whose numbers the k-th update holds
WrittenName(k) == master_values[written[k].row][1]

\* C4: when the identifier is absent from the pre-survey table, get_user_numbers
\* yields "ERROR" at every position before the boundary, and the codes from
\* the boundary on are what they would be with a pre-survey row found.
C4_UnmatchedPreRow ==
    \A k \in 1..Len(written) :
        find_pre_row_by_id(WrittenName(k)) = NOT_FOUND =>
            /\ \A n \in 1..Len(questions) :
                  n - 1 < Boundary => written[k].values[n + 1] = PyStr(ERROR)
            /\ \A row \in 1..Len(pre_values) :
                  \A found \in {NumbersFor(WrittenName(k),
                                    CompileRows(row, find_post_row_by_id(WrittenName(k))))} :
                      ~found.raised =>
                          \A n \in 1..Len(questions) :
                              n - 1 >= Boundary => written[k].values[n + 1] = found.value[n + 1]

\* C6: the sheet a question is read from is decided by its position: before
\* the boundary the pre-survey row, from the boundary on the post-survey row,
\* also when a label occurs at more than one position.
C6_SourceByPosition ==
    written # <<>> =>
        \A n \in 0..(Len(questions) - 1) : post_triggered(n) <=> n >= Boundary

\* the answer at 0-based position n of the identifier lies past the end of
\* the row found for it
PastEndOfRow(identifier, n) ==
    IF post_triggered(n)
    THEN /\ find_post_row_by_id(identifier) # NOT_FOUND
         /\ post_column(questions[n + 1]) # NOT_FOUND
         /\ Len(post_values[find_post_row_by_id(identifier)]) < post_column(questions[n + 1])
    ELSE /\ find_pre_row_by_id(identifier) # NOT_FOUND
         /\ pre_column(questions[n + 1]) # NOT_FOUND
         /\ Len(pre_values[find_pre_row_by_id(identifier)]) < pre_column(questions[n + 1])

\* C7: a row shorter than the column resolved yields the empty string at that
\* position and never aborts the rest of the batch.
C7_ShortRowIsBlank ==
    /\ pc # "failed"
    /\ \A k \in 1..Len(written) : \A n \in 0..(Len(questions) - 1) :
          PastEndOfRow(WrittenName(k), n) => written[k].values[n + 2] = PyStr(<<>>)

\* c and d are the same character up to letter case
EitherCase(c, d) ==
    \/ c = d
    \/ c \in UpperCase /\ LowerOf[c] = d
    \/ d \in UpperCase /\ LowerOf[d] = c

\* the attendance entries that are the identifier up to letter case
AttendanceEntries(identifier) ==
    {i \in 1..Len(attendance_values) :
        /\ Len(attendance_values[i]) = Len(identifier)
        /\ \A c \in 1..Len(identifier) : EitherCase(attendance_values[i][c], identifier[c])}

\* the vectors written so far are what get_user_numbers returns for their
\* identifiers now, one code per question after the attendance count
VectorsReproducible ==
    \A k \in 1..Len(written) :
        /\ get_user_numbers(WrittenName(k)) = Returned(written[k].values)
        /\ Len(written[k].values) = Len(questions) + 1
        /\ written[k].values[1] = PyInt(Cardinality(AttendanceEntries(WrittenName(k))))

\* C8: get_user_numbers keeps no state between calls: a call leaves the
\* tables and the question list unchanged, and the vector of an identifier
\* is the one it gets when processed alone on the same snapshot, of length
\* len(questions) + 1 with the case-insensitive attendance count first.
C8_NoCrossCallState ==
    /\ [][pc = "loop" => globals' = globals]_vars
    /\ []VectorsReproducible

\* two participants have been processed in one run, the first with two
\* attendance entries that differ from the identifier in letter case
C8_Witness ==
    /\ pc = "done"
    /\ Len(written) = 2
    /\ WrittenName(1) # WrittenName(2)
    /\ written[1].values[1] = PyInt(2)
    /\ \A i \in AttendanceEntries(WrittenName(1)) : attendance_values[i] # WrittenName(1)
    /\ written[1].values # written[2].values

----------------------------------------------------------------------------
(* find_best_column called on its own: SpecResolve                          *)

MaxKeywordLen == 2
MaxHeaders == 2

ResolveAlphabet == {"a", "B", "?", " "}

HeaderPool == {<<>>, <<"a","b">>, <<"A","b","?">>, <<"b","a">>, <<"b">>, <<" ","a"," "," ","b"," ">>, <<"a","?","b">>, <<"b","a","b">>}

Cutoffs == {<<0, 1>>, QuestionCutoff, DefaultCutoff, <<1, 1>>}

InitResolve ==
    /\ ModuleLoaded
    /\ pc = "call"
    /\ call \in [keyword : SeqsUpTo(ResolveAlphabet, MaxKeywordLen),
                 headers : SeqsUpTo(HeaderPool, MaxHeaders),
                 cutoff : Cutoffs]
    /\ ret = <<>>

ResolveCall ==
    /\ pc = "call"
    /\ ret' = <<find_best_column(call.keyword, call.headers, call.cutoff)>>
    /\ pc' = "returned"
    /\ UNCHANGED <<globals, names, written, call>>

NextResolve == ResolveCall

SpecResolve == InitResolve /\ [][NextResolve]_vars

\* 1-based positions of the headers whose normalised text contains the
\* normalised keyword
SubstringHits(keyword, headers) ==
    {i \in 1..Len(headers) : Contains(Normalize(headers[i]), Normalize(keyword))}

\* C2: when the normalised keyword is a substring of some normalised header,
\* find_best_column returns the 1-based position of the first such header,
\* whatever the cutoff and whatever the other headers score.
C2_SubstringFirst ==
    (pc = "returned" /\ SubstringHits(call.keyword, call.headers) # {}) =>
        /\ ret[1] \in SubstringHits(call.keyword, call.headers)
        /\ \A i \in SubstringHits(call.keyword, call.headers) : ret[1] <= i

\* a call with a keyword that normalisation changes, answered by the
\* substring pass under the strictest cutoff although a later header scores
\* a higher similarity ratio than the one returned
C2_Witness ==
    /\ pc = "returned"
    /\ call.cutoff = <<1, 1>>
    /\ Len(call.headers) = 2
    /\ SubstringHits(call.keyword, call.headers) = {1, 2}
    /\ ret[1] = 1
    /\ RatLess(Ratio(Normalize(call.keyword), Normalize(call.headers[1])),
               Ratio(Normalize(call.keyword), Normalize(call.headers[2])))
    /\ call.keyword # Normalize(call.keyword)
    /\ Normalize(call.keyword) # <<>>

\* the ratios of the headers, and the first header that attains the largest
RatioOf(keyword, headers, i) == Ratio(Normalize(keyword), Normalize(headers[i]))

FirstMaximizer(keyword, headers) == CHOOSE i \in 1..Len(headers) :
    /\ \A j \in 1..Len(headers) : RatLeq(RatioOf(keyword, headers, j), RatioOf(keyword, headers, i))
    /\ \A j \in 1..(i - 1) : RatLess(RatioOf(keyword, headers, j), RatioOf(keyword, headers, i))

\* C1: with no substring match, find_best_column returns NOT_FOUND exactly when
\* the largest similarity ratio over the headers is strictly below the cutoff,
\* and otherwise the 1-based position of the first header attaining it
\* (an empty header list has no ratio at or above any cutoff).
C1_FuzzyContract ==
    (pc = "returned" /\ SubstringHits(call.keyword, call.headers) = {}) =>
        LET below == \A i \in 1..Len(call.headers) :
                        RatLess(RatioOf(call.keyword, call.headers, i), call.cutoff)
        IN  /\ (ret[1] = NOT_FOUND) <=> below
            /\ ~below => ret[1] = FirstMaximizer(call.keyword, call.headers)
----------------------------------------------------------------------------
(* response_to_number_helper and response_to_number called on their own:    *)
(* SpecEncode                                                               *)

MaxQuestions == 2
MaxResponses == 2

QuestionPool == {<<"w","r","i","t","e"," ","o","n","e"," ","w","o","r","d"," ","t","h","a","t"," ","d","e","s","c","r","i","b","e","s"," ","t","o","d","a","y">>, <<"A","g","e">>}

ResponsePool == {<<>>, <<" ">>, <<"y","e","s">>, <<"A","g","r","e","e">>, <<"r","e","s","i","l","i","e","n","c","e">>, <<" ","R","e","s","i","l","i","e","n","c","e"," ">>, <<"E","R","R","O","R">>}

InitEncode ==
    /\ attendance_values = <<>>
    /\ master_values = <<>>
    /\ pre_values = <<>>
    /\ post_values = <<>>
    /\ pre_headers = <<>>
    /\ post_headers = <<>>
    /\ questions \in SeqsUpTo(QuestionPool, MaxQuestions)
    /\ names = <<>>
    /\ written = <<>>
    /\ pc = "call"
    /\ call \in [response : ResponsePool, responses : SeqsUpTo(ResponsePool, MaxResponses)]
    /\ ret = <<>>

EncodeOne ==
    /\ pc = "call"
    /\ ret' = <<response_to_number_helper(call.response, call.responses)>>
    /\ pc' = "returned_one"
    /\ UNCHANGED <<globals, names, written, call>>

EncodeList ==
    /\ pc = "call"
    /\ ret' = <<response_to_number(call.responses)>>
    /\ pc' = "returned_list"
    /\ UNCHANGED <<globals, names, written, call>>

NextEncode == EncodeOne \/ EncodeList

SpecEncode == InitEncode /\ [][NextEncode]_vars

\* C3: response_to_number_helper is total: for any response and any list of
\* sibling responses it returns an integer, the empty string or "ERROR", and
\* never raises.
C3_EncodeTotal ==
    pc = "returned_one" =>
        /\ ~ret[1].raised
        /\ \/ ret[1].value.kind = "int"
           \/ ret[1].value = PyStr(<<>>)
           \/ ret[1].value = PyStr(ERROR)

\* C5: at every position whose question label contains "write one word", a
\* non-blank answer whose lower-cased, trimmed text is in no vocabulary family
\* is encoded as that text, whatever the other responses and whatever
\* whitespace surrounds the answer.
C5_FreeTextKept ==
    (pc = "returned_list" /\ Len(call.responses) = Len(questions)) =>
        \A i \in 1..Len(questions) :
            ( /\ Contains(questions[i], <<"w","r","i","t","e"," ","o","n","e"," ","w","o","r","d">>)
              /\ Strip(call.responses[i]) # <<>>
              /\ ~InVocabulary(Strip(Lower(call.responses[i]))) )
            => /\ ~ret[1].raised
               /\ ret[1].value[i] = PyStr(Strip(Lower(call.responses[i])))

----------------------------------------------------------------------------
(* response_to_number_helper on spellings of the vocabulary: SpecVocabulary *)

MaxPad == 1

PadChars == {" ", "\t"}

\* str.upper() of a lower-case vocabulary text
Upper(s) == [i \in 1..Len(s) |->
    IF \E u \in UpperCase : LowerOf[u] = s[i]
    THEN CHOOSE u \in UpperCase : LowerOf[u] = s[i]
    ELSE s[i]]

Capitalize(s) == IF s = <<>> THEN s ELSE SubSeq(Upper(s), 1, 1) \o Tail(s)

\* s with every space replaced by w
RECURSIVE ReplaceSpaces(_, _)
ReplaceSpaces(s, w) ==
    IF \E i \in 1..Len(s) : s[i] = " "
    THEN LET k == CHOOSE i \in 1..Len(s) : s[i] = " " /\ \A j \in 1..(i - 1) : s[j] # " "
         IN  SubSeq(s, 1, k - 1) \o w \o ReplaceSpaces(SubSeq(s, k + 1, Len(s)), w)
    ELSE s

\* spellings of a vocabulary text: letter case changed, inner spaces widened or
\* turned into tabs, whitespace put around it
Spellings(v) ==
    {pre \o ReplaceSpaces(cased, inner) \o post :
        cased \in {v, Upper(v), Capitalize(v)},
        inner \in {<<" ">>, <<" "," ">>, <<"\t">>},
        pre \in SeqsUpTo(PadChars, MaxPad),
        post \in SeqsUpTo(PadChars, MaxPad)}

VocabularySpellings == UNION {Spellings(VocabularyTable[n][1]) : n \in 1..Len(VocabularyTable)}

InitVocabulary ==
    /\ attendance_values = <<>>
    /\ master_values = <<>>
    /\ pre_values = <<>>
    /\ post_values = <<>>
    /\ pre_headers = <<>>
    /\ post_headers = <<>>
    /\ questions \in {<<>>, <<<<"w","r","i","t","e"," ","o","n","e"," ","w","o","r","d"," ","t","h","a","t"," ","d","e","s","c","r","i","b","e","s"," ","t","o","d","a","y">>>>}
    /\ names = <<>>
    /\ written = <<>>
    /\ pc = "call"
    /\ \E s \in VocabularySpellings :
          call \in [response : {s}, responses : {<<>>, <<s>>}]
    /\ ret = <<>>

NextVocabulary == EncodeOne

SpecVocabulary == InitVocabulary /\ [][NextVocabulary]_vars

\* s and the vocabulary text v differ only in letter case and in whitespace
SameUpToCaseAndWhitespace(s, v) ==
    CollapseWhitespace(Strip(Lower(s))) = CollapseWhitespace(Strip(Lower(v)))

\* C10 as stated: a response that differs from a vocabulary text only in letter
\* case and in whitespace receives the code of that text.
C10_CaseAndWhitespaceInsensitive ==
    pc = "returned_one" =>
        \A n \in 1..Len(VocabularyTable) :
            SameUpToCaseAndWhitespace(call.response, VocabularyTable[n][1])
            => ret[1] = Returned(PyInt(VocabularyTable[n][2]))

\* c is the letter d in either case
SameLetter(c, d) == c = d \/ (c \in UpperCase /\ LowerOf[c] = d)

\* s is the vocabulary text v in some letter case, with whitespace around it
SameUpToCaseAndPadding(s, v) ==
    \E k \in 0..(Len(s) - Len(v)) :
        /\ \A i \in 1..k : s[i] \in Whitespace
        /\ \A i \in (k + Len(v) + 1)..Len(s) : s[i] \in Whitespace
        /\ \A i \in 1..Len(v) : SameLetter(s[k + i], v[i])

\* C10 as amended: a response that differs from a vocabulary text only in letter
\* case and in leading or trailing whitespace receives the code of that text.
C10_CaseAndPaddingInsensitive ==
    pc = "returned_one" =>
        \A n \in 1..Len(VocabularyTable) :
            SameUpToCaseAndPadding(call.response, VocabularyTable[n][1])
            => ret[1] = Returned(PyInt(VocabularyTable[n][2]))

\* "Strongly Agree" with whitespace on both sides has been encoded as 4
C10_Witness ==
    /\ pc = "returned_one"
    /\ SameUpToCaseAndPadding(call.response, <<"s","t","r","o","n","g","l","y"," ","a","g","r","e","e">>)
    /\ call.response # <<"s","t","r","o","n","g","l","y"," ","a","g","r","e","e">>
    /\ Head(call.response) \in Whitespace
    /\ call.response[Len(call.response)] \in Whitespace
    /\ \E i \in 1..Len(call.response) : call.response[i] \in UpperCase
    /\ ret[1] = Returned(PyInt(4))
----------------------------------------------------------------------------
(* filter_responses called on its own, and again on its result:             *)
(* SpecSanitize                                                             *)

MaxSanitized == 3

SanitizePool == {<<>>, <<" ">>, <<"c","a","l","m">>, <<"a",":","b">>, <<"1","/","2">>, <<"3","/","1","4","/","2","0","2","3"," ","1","0",":","0","0",":","0","0">>, <<":","/">>}

InitSanitize ==
    /\ ModuleLoaded
    /\ pc = "call"
    /\ call \in [responses : SeqsUpTo(SanitizePool, MaxSanitized)]
    /\ ret = <<>>

\* the first call
Sanitize ==
    /\ pc = "call"
    /\ ret' = <<filter_responses(call.responses)>>
    /\ pc' = "once"
    /\ UNCHANGED <<globals, names, written, call>>

\* a second call, on the list the first returned
SanitizeAgain ==
    /\ pc = "once"
    /\ ret' = Append(ret, filter_responses(ret[1]))
    /\ pc' = "twice"
    /\ UNCHANGED <<globals, names, written, call>>

NextSanitize == Sanitize \/ SanitizeAgain

SpecSanitize == InitSanitize /\ [][NextSanitize]_vars

\* the string has a character c
HasChar(s, c) == \E i \in 1..Len(s) : s[i] = c

\* C9: filter_responses keeps length and order: each position is the input
\* unchanged, or a single space exactly when the input has both ':' and '/';
\* and it is idempotent.
C9_SanitizeContract ==
    /\ pc \in {"once", "twice"} =>
          /\ Len(ret[1]) = Len(call.responses)
          /\ \A n \in 1..Len(call.responses) :
                IF HasChar(call.responses[n], ":") /\ HasChar(call.responses[n], "/")
                THEN ret[1][n] = <<" ">>
                ELSE ret[1][n] = call.responses[n]
    /\ pc = "twice" => ret[2] = ret[1]

\* a list with a timestamp between two answers that have only one of the two
\* characters has been filtered twice
C9_Witness ==
    /\ pc = "twice"
    /\ Len(call.responses) = 3
    /\ call.responses[1] = <<"a",":","b">>
    /\ call.responses[2] = <<"3","/","1","4","/","2","0","2","3"," ","1","0",":","0","0",":","0","0">>
    /\ call.responses[3] = <<"1","/","2">>
    /\ ret[1] = <<<<"a",":","b">>, <<" ">>, <<"1","/","2">>>>

====
